---- MODULE Spec2Model ----
(***************************************************************************)
(* State-machine model of the tiling policy core in src/main.rs: the       *)
(* interactive session (COMPOSITOR), the visibility stack (HIDDEN), the    *)
(* layout engine (update_layout) and the runtime callbacks.                *)
(*                                                                         *)
(* The runtime (wlc) owns windows and outputs.  Its state is modelled by   *)
(* views (stacking order per output, bottom first, top last), focused,     *)
(* geo, resizing and res.  Handles of destroyed windows are invalid:       *)
(* runtime calls on them do nothing and get_geometry yields None.  A view  *)
(* being destroyed has left its output's list of views when the callback   *)
(* runs, while get_output() still names that output.                       *)
(***************************************************************************)
EXTENDS Integers, Sequences, FiniteSets, TLC

\* ---------------------------------------------------------------- bounds
MaxTiles == 3     \* windows of the tiling specification
MaxWin == 2       \* windows of the specifications with pointer events
MaxOut == 2
MaxHidden == 2    \* length of the visibility stack
MaxMotions == 1   \* pointer-motion events of one run
MaxThreads == 2
MaxCoord == 7     \* coordinates of the resize arithmetic: 0, GridStep, ..
GridStep == 20    \* .. up to MaxCoord * GridStep

Windows == 1..MaxTiles
Outputs == 1..MaxOut
Threads == 1..MaxThreads

\* ------------------------------------------------------ program constants
Root == 0            \* the handle for which is_root() holds
None == -1           \* Option::None of Compositor.view / of Vec::pop
MinSize == 32        \* floor of a resize
BtnLeft == 272       \* 0x110
BtnRight == 273      \* 0x111
BtnMiddle == 274     \* any other button code

ResizeEdgeEmpty == {}
ResizeRightBottom == {"right", "bottom"}

Resolutions == {[w |-> 1920, h |-> 1080]}
Points == {[x |-> 80, y |-> 80], [x |-> 1000, y |-> 600]}
KeySyms == {"d", "Left", "Right", "Down", "Up", "o", "q", "other"}

\* Geometry reported by the runtime for a window the core has not placed yet,
\* and the absence of a geometry (get_geometry() == None on a dead handle).
ClientGeo == [x |-> 0, y |-> 0, w |-> 0, h |-> 0]
NoGeo == [x |-> -1, y |-> -1, w |-> -1, h |-> -1]

VARIABLES
  views,           \* [Outputs -> Seq(Windows)]: output.get_views(), bottom first
  hidden,          \* HIDDEN: Seq(Windows)
  focused,         \* the window holding input focus, or Root
  geo,             \* [Windows -> rectangle]
  resizing,        \* [Windows -> BOOLEAN]: VIEW_RESIZING
  res,             \* [Outputs -> resolution]
  comp,            \* COMPOSITOR: [view, edges]
  status,          \* "running", "terminated" or the panic that ended the process
  overflow_checks, \* build profile: does usize subtraction panic on overflow
  pc,              \* [Threads -> position of the callback running on the thread]
  targ,            \* [Threads -> the view argument of that callback]
  at,              \* [Threads -> the lock operation the thread does next]
  motions,         \* pointer-motion events delivered so far
  last             \* the callback that ran last: its arguments, result and layout call

vars == <<views, hidden, focused, geo, resizing, res, comp, status,
          overflow_checks, pc, targ, at, motions, last>>

\* ---------------------------------------------------------------- helpers
Range(s) == {s[i] : i \in 1..Len(s)}
InSeq(x, s) == \E i \in 1..Len(s) : s[i] = x
Without(s, x) == SelectSeq(s, LAMBDA v : v # x)
IndexOf(s, x) == CHOOSE i \in 1..Len(s) : s[i] = x
Max(a, b) == IF a > b THEN a ELSE b

Alive == UNION {Range(views[o]) : o \in Outputs}
\* hidden.iter().position(|&v| v == x), then hidden.remove(idx)
RemoveFirst(s, x) ==
  IF ~InSeq(x, s) THEN s
  ELSE LET idx == CHOOSE i \in 1..Len(s) : s[i] = x /\ \A j \in 1..(i - 1) : s[j] # x
       IN SubSeq(s, 1, idx - 1) \o SubSeq(s, idx + 1, Len(s))

\* views.iter().filter(|v| !hidden.contains(v))
Visible(vs, hid) == SelectSeq(vs, LAMBDA v : ~InSeq(v, hid))

\* view.bring_to_front() / view.send_to_back() on the stacking order vw;
\* nothing happens for a handle that is in no output
BringToFront(vw, w) ==
  [o \in Outputs |-> IF InSeq(w, vw[o]) THEN Append(Without(vw[o], w), w) ELSE vw[o]]
SendToBack(vw, w) ==
  [o \in Outputs |-> IF InSeq(w, vw[o]) THEN <<w>> \o Without(vw[o], w) ELSE vw[o]]

\* view.focus(): a dead handle converts to no view, which clears the focus
Focus(vw, w) == IF \E o \in Outputs : InSeq(w, vw[o]) THEN w ELSE Root

\* ------------------------------------------------------------ update_layout
\* u32 division resolution.h / d.  A negative d stands for the u32 value
\* 2^32 + d (a truncated wrapped usize), which exceeds every height used here.
DivU32(n, d) == IF d < 0 THEN 0 ELSE n \div d

NoRects == [v \in {} |-> NoGeo]
FullRect(r) == [x |-> 0, y |-> 0, w |-> r.w, h |-> r.h]

\* The set_geometry calls of update_layout and how it ends, for the views vs of
\* the output, the visibility stack hid and the resolution r.  viewlen is a
\* usize: a negative value v stands for 2^64 + v, the result of a wrapping
\* subtraction (overflow checks off); (v + 1) wraps to 0 for v = -1, and the
\* halves truncated to u32 are 2^32 + (v \div 2) (floor division).
Layout(vs, hid, r, chk) ==
  IF vs = <<>> THEN [status |-> "running", rects |-> NoRects]
  ELSE
    LET viewlen == Len(vs) - Len(hid) IN
    IF viewlen < 0 /\ chk THEN [status |-> "panic_sub_overflow", rects |-> NoRects]
    ELSE IF viewlen = 1
      THEN [status |-> "running", rects |-> [v \in {vs[1]} |-> FullRect(r)]]
    ELSE
      LET w == r.w \div 2
          d0 == (viewlen + 1) \div 2
          d1 == viewlen \div 2
      IN
      IF d0 = 0 \/ d1 = 0 THEN [status |-> "panic_div_zero", rects |-> NoRects]
      ELSE
        LET h0 == DivU32(r.h, d0)
            h1 == DivU32(r.h, d1)
            vis == Visible(vs, hid)
        IN [status |-> "running",
            rects |-> [v \in Range(vis) |->
                        LET i == IndexOf(vis, v) - 1 IN
                        IF i % 2 = 1
                          THEN [x |-> w, y |-> h1 * (i \div 2), w |-> w, h |-> h1]
                          ELSE [x |-> 0, y |-> h0 * (i \div 2), w |-> w, h |-> h0]]]

\* The record of one update_layout call kept in last.lay.
NoLayout == [ran |-> FALSE, out |-> 0, vis |-> <<>>, hid |-> {}, rects |-> NoRects,
             status |-> "running"]
LayoutCall(o, vs, hid, r, chk) ==
  LET l == Layout(vs, hid, r, chk) IN
  [ran |-> TRUE, out |-> o, vis |-> Visible(vs, hid),
   hid |-> {v \in Range(vs) : InSeq(v, hid)}, rects |-> l.rects, status |-> l.status]

\* geometry after the set_geometry calls of a layout record
ApplyRects(g, rects) == [w \in Windows |-> IF w \in DOMAIN rects THEN rects[w] ELSE g[w]]


\* ------------------------------------------------------------ program state
\* The state the handlers read and write, as one record.
St == [views |-> views, hidden |-> hidden, focused |-> focused, geo |-> geo,
       resizing |-> resizing, res |-> res, comp |-> comp, status |-> status,
       last |-> last]

Become(n) ==
  /\ views' = n.views
  /\ hidden' = n.hidden
  /\ focused' = n.focused
  /\ geo' = n.geo
  /\ resizing' = n.resizing
  /\ res' = n.res
  /\ comp' = n.comp
  /\ status' = n.status
  /\ last' = n.last

IsAlive(s, w) == \E o \in Outputs : InSeq(w, s.views[o])
OutOf(s, w) == CHOOSE o \in Outputs : InSeq(w, s.views[o])

\* The entry of a callback or of one arm of it: what last records before the
\* body runs (op names the arm, view the window it acts on).
NoPoint == [x |-> 0, y |-> 0]
Call(op, view) ==
  [op |-> op, view |-> view, pt |-> NoPoint, ret |-> FALSE, popped |-> None,
   lay |-> NoLayout]
Enter(s, op, view) == [s EXCEPT !.last = Call(op, view)]
Return(s, r) == [s EXCEPT !.last.ret = r]

\* view.set_state(VIEW_RESIZING, b); nothing happens for a dead handle
SetResizing(s, w, b) ==
  IF IsAlive(s, w) THEN [s EXCEPT !.resizing[w] = b] ELSE s

UpdateLayout(s, o) ==
  LET l == LayoutCall(o, s.views[o], s.hidden, s.res[o], overflow_checks) IN
  [s EXCEPT !.geo = ApplyRects(@, l.rects), !.status = l.status, !.last.lay = l]

\* -------------------------------------------------------- interactive session
\* start_interactive_action without the test for an active session
StartInteractiveActionSteal(s, view) ==
  Return([s EXCEPT !.comp.view = view, !.views = BringToFront(@, view)], TRUE)

\* start_interactive_action: one critical section of COMPOSITOR.write()
StartInteractiveAction(s, view) ==
  IF s.comp.view # None
    THEN Return(s, FALSE)
    ELSE Return([s EXCEPT !.comp.view = view, !.views = BringToFront(@, view)], TRUE)

StartInteractiveMove(s, view) == StartInteractiveAction(s, view)

\* the second critical section of start_interactive_resize
SetResizeEdges(s, view) ==
  SetResizing([s EXCEPT !.comp.edges = ResizeRightBottom], view, TRUE)

StartInteractiveResize(s, view) ==
  LET a == StartInteractiveAction(s, view) IN
  IF a.last.ret THEN SetResizeEdges(a, view) ELSE a

\* stop_interactive_action leaving the edges of the session behind
StopInteractiveActionKeepEdges(s) ==
  IF s.comp.view = None THEN s
  ELSE [SetResizing(s, s.comp.view, FALSE) EXCEPT !.comp.view = None]

StopInteractiveAction(s) ==
  IF s.comp.view = None THEN s
  ELSE [SetResizing(s, s.comp.view, FALSE) EXCEPT
          !.comp = [view |-> None, edges |-> ResizeEdgeEmpty]]


\* ------------------------------------------------------------------ callbacks
\* on_output_resolution: the runtime has set the resolution to `to`
OutputResolution(s, o, to) ==
  UpdateLayout([Enter(s, "output_resolution", Root) EXCEPT !.res[o] = to], o)

\* on_view_created: the runtime has put the new view w on output o with the
\* client's geometry (the output mask it is given is not modelled)
ViewCreated(s, w, o) ==
  LET e == Enter(s, "view_created", w)
      a == [e EXCEPT !.views[o] = Append(@, w), !.geo[w] = ClientGeo]
      b == [a EXCEPT !.views = BringToFront(@, w), !.focused = Focus(a.views, w)]
  IN Return(UpdateLayout(b, o), TRUE)

\* on_view_destroyed giving the focus to the top-most remaining window, hidden
\* or not
ViewDestroyedFocusTop(s, w) ==
  LET o == OutOf(s, w)
      e == Enter(s, "view_destroyed", w)
      seen == [e EXCEPT !.views[o] = Without(@, w)]
      vis == seen.views[o]
      f == IF vis # <<>>
             THEN [seen EXCEPT !.focused = Focus(seen.views, vis[Len(vis)])]
             ELSE seen
      h == [f EXCEPT !.hidden = RemoveFirst(@, w)]
      l == UpdateLayout(h, o)
  IN [l EXCEPT !.geo[w] = NoGeo, !.resizing[w] = FALSE,
               !.focused = IF @ = w THEN Root ELSE @]

\* on_view_destroyed.  The runtime has taken the dying view w off its output's
\* list of views; after the callback it releases the view: its handle dies and
\* it loses the focus if it still has it.
ViewDestroyed(s, w) ==
  LET o == OutOf(s, w)
      e == Enter(s, "view_destroyed", w)
      seen == [e EXCEPT !.views[o] = Without(@, w)]
      vis == Visible(seen.views[o], seen.hidden)
      f == IF vis # <<>>
             THEN [seen EXCEPT !.focused = Focus(seen.views, vis[Len(vis)])]
             ELSE seen
      h == [f EXCEPT !.hidden = RemoveFirst(@, w)]
      l == UpdateLayout(h, o)
  IN [l EXCEPT !.geo[w] = NoGeo, !.resizing[w] = FALSE,
               !.focused = IF @ = w THEN Root ELSE @]

\* on_view_request_move / on_view_request_resize
ViewRequestMove(s, w) == StartInteractiveMove(Enter(s, "request_move", w), w)
ViewRequestResize(s, w) == StartInteractiveResize(Enter(s, "request_resize", w), w)

\* the arms of on_keyboard_key, for the view the key event is delivered to
KeyLeft(s, view) ==
  IF view = Root THEN Return(s, TRUE)
  ELSE LET a == [s EXCEPT !.views = SendToBack(@, view)]
           vs == Visible(a.views[OutOf(a, view)], a.hidden)
       IN IF Len(vs) < 2 THEN Return(a, TRUE)
          ELSE Return([a EXCEPT !.focused = Focus(a.views, vs[Len(vs)])], TRUE)

KeyRight(s, view) ==
  IF view = Root THEN Return(s, TRUE)
  ELSE LET vs == Visible(s.views[OutOf(s, view)], s.hidden)
       IN IF Len(vs) < 2 THEN Return(s, TRUE)
          ELSE Return([s EXCEPT !.views = BringToFront(@, vs[1]),
                                !.focused = Focus(s.views, vs[1])], TRUE)

KeyDown(s, view) ==
  IF view = Root THEN Return(s, TRUE)
  ELSE LET a == [s EXCEPT !.views = SendToBack(@, view), !.hidden = Append(@, view)]
       IN Return(UpdateLayout(a, OutOf(a, view)), TRUE)

KeyUp(s, view) ==
  IF view = Root \/ s.hidden = <<>> THEN Return(s, TRUE)
  ELSE LET hview == s.hidden[Len(s.hidden)]
           a == [s EXCEPT !.hidden = SubSeq(@, 1, Len(@) - 1), !.last.popped = hview]
           b == [a EXCEPT !.views = BringToFront(@, hview),
                          !.focused = Focus(a.views, hview)]
       IN Return(UpdateLayout(b, OutOf(b, view)), TRUE)

\* on_keyboard_key.  pressed: state == Pressed; alt: mods.mods == MOD_ALT;
\* spawn_ok: does spawning the terminal succeed.
KeyboardKey(s, view, sym, pressed, alt, spawn_ok) ==
  IF ~(pressed /\ alt) THEN Return(Enter(s, "key_ignored", Root), FALSE)
  ELSE CASE sym = "d" -> Return(Enter(s, "key_d", view), TRUE)
         [] sym = "Left" -> KeyLeft(Enter(s, "key_Left", view), view)
         [] sym = "Right" -> KeyRight(Enter(s, "key_Right", view), view)
         [] sym = "Down" -> KeyDown(Enter(s, "key_Down", view), view)
         [] sym = "Up" -> KeyUp(Enter(s, "key_Up", view), view)
         [] sym = "o" -> Return([Enter(s, "key_o", Root) EXCEPT
                                   !.status = "terminated"], TRUE)
         [] sym = "q" -> Return([Enter(s, "key_q", Root) EXCEPT
                                   !.status = IF spawn_ok THEN @ ELSE "panic_spawn"],
                                TRUE)
         [] OTHER -> Return(Enter(s, "key_other", Root), FALSE)

\* on_pointer_button reporting the session as it was when the event came
PointerButtonStale(s, view, pressed, alt, button) ==
  LET a == IF pressed
             THEN IF view # Root /\ alt
                    THEN LET f == [s EXCEPT !.focused = Focus(s.views, view)] IN
                         CASE button = BtnLeft ->
                                StartInteractiveMove(Enter(f, "press_left", view), view)
                           [] button = BtnRight ->
                                StartInteractiveResize(Enter(f, "press_right", view), view)
                           [] OTHER -> Enter(f, "press_other", view)
                    ELSE Enter(s, "press_ignored", Root)
             ELSE StopInteractiveAction(Enter(s, "button_release", s.comp.view))
  IN Return(a, s.comp.view # None)

\* on_pointer_button ending the session only when the left button is released
PointerButtonLeftEnds(s, view, pressed, alt, button) ==
  LET a == IF pressed
             THEN IF view # Root /\ alt
                    THEN LET f == [s EXCEPT !.focused = Focus(s.views, view)] IN
                         CASE button = BtnLeft ->
                                StartInteractiveMove(Enter(f, "press_left", view), view)
                           [] button = BtnRight ->
                                StartInteractiveResize(Enter(f, "press_right", view), view)
                           [] OTHER -> Enter(f, "press_other", view)
                    ELSE Enter(s, "press_ignored", Root)
             ELSE IF button = BtnLeft
                    THEN StopInteractiveAction(Enter(s, "button_release", s.comp.view))
                    ELSE Enter(s, "button_release", s.comp.view)
  IN Return(a, a.comp.view # None)

\* on_pointer_button.  alt: mods.mods.contains(MOD_ALT).  For a released
\* button last.view is the window whose session the release finds (or None).
PointerButton(s, view, pressed, alt, button) ==
  LET a == IF pressed
             THEN IF view # Root /\ alt
                    THEN LET f == [s EXCEPT !.focused = Focus(s.views, view)] IN
                         CASE button = BtnLeft ->
                                StartInteractiveMove(Enter(f, "press_left", view), view)
                           [] button = BtnRight ->
                                StartInteractiveResize(Enter(f, "press_right", view), view)
                           [] OTHER -> Enter(f, "press_other", view)
                    ELSE Enter(s, "press_ignored", Root)
             ELSE StopInteractiveAction(Enter(s, "button_release", s.comp.view))
  IN Return(a, a.comp.view # None)

\* the resize of on_pointer_motion without the floor
MotionGeoNoFloor(g, edges, point) ==
  IF edges # ResizeEdgeEmpty
    THEN [g EXCEPT !.w = IF point.x > g.x THEN point.x - g.x ELSE MinSize,
                   !.h = IF point.y > g.y THEN point.y - g.y ELSE MinSize]
    ELSE [g EXCEPT !.x = point.x, !.y = point.y]

\* the geometry on_pointer_motion gives the session's view, from its geometry
\* g, the session's edges and the pointer position
MotionGeo(g, edges, point) ==
  IF edges # ResizeEdgeEmpty
    THEN [g EXCEPT !.w = IF point.x > g.x THEN Max(point.x - g.x, MinSize) ELSE MinSize,
                   !.h = IF point.y > g.y THEN Max(point.y - g.y, MinSize) ELSE MinSize]
    ELSE [g EXCEPT !.x = point.x, !.y = point.y]

\* on_pointer_motion (the pointer position handed to the input subsystem is
\* not part of the state)
PointerMotion(s, point) ==
  LET e == [Enter(s, "pointer_motion", s.comp.view) EXCEPT !.last.pt = point] IN
  IF e.comp.view = None THEN Return(e, FALSE)
  ELSE LET view == e.comp.view
           g == e.geo[view]
       IN IF g = NoGeo THEN [e EXCEPT !.status = "panic_unwrap_none"]
          ELSE Return([e EXCEPT !.geo[view] = MotionGeo(g, e.comp.edges, point)], TRUE)

\* ------------------------------------------------------------------- actions
Running == status = "running"

OnOutputResolution ==
  \E o \in Outputs, to \in Resolutions :
    /\ Running
    /\ Become(OutputResolution(St, o, to))
    /\ UNCHANGED <<at, overflow_checks, pc, targ, motions>>

\* the runtime creates a view with a free handle among the first n on one of
\* the outputs outs
CreateAmong(n, outs) ==
  \E w \in (1..n) \ Alive, o \in outs :
    /\ Running
    /\ Become(ViewCreated(St, w, o))
    /\ UNCHANGED <<at, overflow_checks, pc, targ, motions>>

OnViewCreated == CreateAmong(MaxWin, Outputs)

OnViewDestroyed ==
  \E w \in Alive :
    /\ Running
    /\ Become(ViewDestroyed(St, w))
    /\ UNCHANGED <<at, overflow_checks, pc, targ, motions>>

OnViewRequestMove ==
  \E w \in Alive :
    /\ Running
    /\ Become(ViewRequestMove(St, w))
    /\ UNCHANGED <<at, overflow_checks, pc, targ, motions>>

OnViewRequestResize ==
  \E w \in Alive :
    /\ Running
    /\ Become(ViewRequestResize(St, w))
    /\ UNCHANGED <<at, overflow_checks, pc, targ, motions>>

\* A key event goes to the focused view, or to the root when none is focused.
\* The guard on Len(hidden) bounds the growth of the visibility stack.
OnKeyboardKey ==
  \E sym \in KeySyms, pressed \in BOOLEAN, alt \in BOOLEAN :
  \E spawn_ok \in {TRUE} \cup {sym # "q"} :
    /\ Running
    /\ (sym = "Down" /\ pressed /\ alt /\ focused # Root) => Len(hidden) < MaxHidden
    /\ Become(KeyboardKey(St, focused, sym, pressed, alt, spawn_ok))
    /\ UNCHANGED <<at, overflow_checks, pc, targ, motions>>

OnPointerButton ==
  \E view \in Alive \cup {Root}, pressed \in BOOLEAN, alt \in BOOLEAN,
     button \in {BtnLeft, BtnRight, BtnMiddle} :
    /\ Running
    /\ Become(PointerButton(St, view, pressed, alt, button))
    /\ UNCHANGED <<at, overflow_checks, pc, targ, motions>>

OnPointerMotion ==
  \E point \in Points :
    /\ Running
    /\ motions < MaxMotions
    /\ motions' = motions + 1
    /\ Become(PointerMotion(St, point))
    /\ UNCHANGED <<at, overflow_checks, pc, targ>>

Init ==
  /\ views = [o \in Outputs |-> <<>>]
  /\ hidden = <<>>
  /\ focused = Root
  /\ geo = [w \in Windows |-> NoGeo]
  /\ resizing = [w \in Windows |-> FALSE]
  /\ res \in [Outputs -> Resolutions]
  /\ comp = [view |-> None, edges |-> ResizeEdgeEmpty]
  /\ status = "running"
  /\ overflow_checks \in BOOLEAN
  /\ pc = [t \in Threads |-> "idle"]
  /\ targ = [t \in Threads |-> Root]
  /\ at = [t \in Threads |-> 0]
  /\ motions = 0
  /\ last = Call("init", Root)

\* Callbacks delivered one at a time, each running to completion.
Next ==
  \/ OnOutputResolution
  \/ OnViewCreated
  \/ OnViewDestroyed
  \/ OnViewRequestMove
  \/ OnViewRequestResize
  \/ OnKeyboardKey
  \/ OnPointerButton
  \/ OnPointerMotion

Spec == Init /\ [][Next]_vars

\* The tiling alone: no pointer event, so no session, and more windows.
OnTileCreated == CreateAmong(MaxTiles, Outputs)

NextTiling ==
  \/ OnOutputResolution
  \/ OnTileCreated
  \/ OnViewDestroyed
  \/ OnKeyboardKey

SpecTiling == Init /\ [][NextTiling]_vars


\* ------------------------------------------------------ concurrent callbacks
\* Callbacks delivered on several threads.  A step is one critical section of
\* COMPOSITOR's lock together with the runtime calls made inside it; a thread
\* between two critical sections of its callback holds no lock.

\* on_view_request_move: the one critical section of start_interactive_action
TRequestMove(t) ==
  \E w \in Alive :
    /\ Running /\ pc[t] = "idle"
    /\ Become(ViewRequestMove(St, w))
    /\ UNCHANGED <<at, overflow_checks, pc, targ, motions>>

\* on_view_request_resize, first critical section: start_interactive_action
TRequestResize(t) ==
  \E w \in Alive :
    LET a == StartInteractiveAction(Enter(St, "request_resize", w), w) IN
    /\ Running /\ pc[t] = "idle"
    /\ Become(a)
    /\ pc' = [pc EXCEPT ![t] = IF a.last.ret THEN "set_edges" ELSE "idle"]
    /\ targ' = [targ EXCEPT ![t] = IF a.last.ret THEN w ELSE Root]
    /\ UNCHANGED <<at, overflow_checks, motions>>

\* on_view_request_resize, second critical section: the edges and the flag
TSetResizeEdges(t) ==
  /\ Running /\ pc[t] = "set_edges"
  /\ Become(Return(SetResizeEdges(Enter(St, "set_edges", targ[t]), targ[t]), TRUE))
  /\ pc' = [pc EXCEPT ![t] = "idle"]
  /\ targ' = [targ EXCEPT ![t] = Root]
  /\ UNCHANGED <<at, overflow_checks, motions>>

\* on_pointer_button for a released button, first critical section:
\* stop_interactive_action
TButtonRelease(t) ==
  /\ Running /\ pc[t] = "idle"
  /\ Become(StopInteractiveAction(Enter(St, "stop", comp.view)))
  /\ pc' = [pc EXCEPT ![t] = "read_session"]
  /\ UNCHANGED <<at, overflow_checks, targ, motions>>

\* on_pointer_button, last critical section: COMPOSITOR.read() for the result
TButtonReturn(t) ==
  /\ Running /\ pc[t] = "read_session"
  /\ Become(Return(Enter(St, "button_release", Root), comp.view # None))
  /\ pc' = [pc EXCEPT ![t] = "idle"]
  /\ UNCHANGED <<at, overflow_checks, targ, motions>>

\* all windows of the concurrent specification are on the first output
OnSeatCreated == CreateAmong(MaxWin, {1})

NextConc ==
  \/ OnSeatCreated
  \/ \E t \in Threads : TRequestMove(t)
  \/ \E t \in Threads : TRequestResize(t)
  \/ \E t \in Threads : TSetResizeEdges(t)
  \/ \E t \in Threads : TButtonRelease(t)
  \/ \E t \in Threads : TButtonReturn(t)

SpecConc == Init /\ [][NextConc]_vars

\* The session alone, callbacks one at a time: windows of one output come and
\* go, ask for a move or a resize, and pointer buttons are pressed and released.
NextSess ==
  \/ OnSeatCreated
  \/ OnViewDestroyed
  \/ OnViewRequestMove
  \/ OnViewRequestResize
  \/ OnPointerButton

SpecSess == Init /\ [][NextSess]_vars


\* ------------------------------------------------------------ the two locks
\* The locks alone: callbacks on several threads, each following the lock
\* operations of its code.  What a critical section does to the session and
\* to the windows is in the callbacks above; here a callback is the path it
\* takes through its code (pc) and the operation it does next on that path
\* (at), and the path is any of those its code has.  A guard is released where
\* its scope ends; a callback returns with its last release.
Acquire(l, m) == [do |-> "acquire", lock |-> l, mode |-> m]
Release(l, m) == [do |-> "release", lock |-> l, mode |-> m]
Section(l, m) == <<Acquire(l, m), Release(l, m)>>

LockPaths ==
  {"request_move", "request_resize", "press_left", "press_right", "press_other",
   "button_release", "pointer_motion", "update_layout", "view_destroyed",
   "key_Left", "key_Right", "key_Down", "key_Up", "key_Up_empty"}

\* KEY_Up holding its write guard while update_layout runs
KeyUpLocksGuardKept ==
  <<Acquire("HIDDEN", "write"), Acquire("HIDDEN", "read"),
    Release("HIDDEN", "read"), Release("HIDDEN", "write")>>

\* KEY_Up with a window to restore: the guard of the pop is dropped at the end
\* of its block, then update_layout takes its own
KeyUpLocks == Section("HIDDEN", "write") \o Section("HIDDEN", "read")

LockPlan(path) ==
  CASE path = "request_move" -> Section("COMPOSITOR", "write")
    [] path = "request_resize" ->
         Section("COMPOSITOR", "write") \o Section("COMPOSITOR", "write")
    [] path = "press_left" ->
         Section("COMPOSITOR", "write") \o Section("COMPOSITOR", "read")
    [] path = "press_right" ->
         Section("COMPOSITOR", "write") \o Section("COMPOSITOR", "write")
           \o Section("COMPOSITOR", "read")
    [] path = "press_other" -> Section("COMPOSITOR", "read")
    [] path = "button_release" ->
         Section("COMPOSITOR", "write") \o Section("COMPOSITOR", "read")
    [] path = "pointer_motion" -> Section("COMPOSITOR", "read")
    [] path = "update_layout" -> Section("HIDDEN", "read")
    [] path = "view_destroyed" ->
         Section("HIDDEN", "write") \o Section("HIDDEN", "read")
    [] path = "key_Left" -> Section("HIDDEN", "read")
    [] path = "key_Right" -> Section("HIDDEN", "read")
    [] path = "key_Down" -> Section("HIDDEN", "write") \o Section("HIDDEN", "read")
    [] path = "key_Up" -> KeyUpLocks
    [] path = "key_Up_empty" -> Section("HIDDEN", "write")

Busy(t) == pc[t] # "idle"
NextOp(t) == LockPlan(pc[t])[at[t]]

\* the guards thread t holds: acquired on its path and not released yet
Held(t) ==
  IF ~Busy(t) THEN {}
  ELSE LET plan == LockPlan(pc[t]) IN
       {[lock |-> plan[i].lock, mode |-> plan[i].mode] :
          i \in {i \in 1..(at[t] - 1) :
                   /\ plan[i].do = "acquire"
                   /\ ~\E j \in (i + 1)..(at[t] - 1) :
                         plan[j].do = "release" /\ plan[j].lock = plan[i].lock}}

Requesting(t) == Busy(t) /\ NextOp(t).do = "acquire"

\* RwLock: a writer excludes every other guard, readers share
CanGrant(l, m) ==
  \A u \in Threads : \A h \in Held(u) :
    h.lock = l => (m = "read" /\ h.mode = "read")

CanStep(t) ==
  Busy(t) /\ (NextOp(t).do = "acquire" => CanGrant(NextOp(t).lock, NextOp(t).mode))

LStart(t) ==
  \E path \in LockPaths :
    /\ ~Busy(t)
    /\ pc' = [pc EXCEPT ![t] = path]
    /\ at' = [at EXCEPT ![t] = 1]
    /\ UNCHANGED <<views, hidden, focused, geo, resizing, res, comp, status,
                   overflow_checks, targ, motions, last>>

LAcquire(t) ==
  /\ Requesting(t)
  /\ CanGrant(NextOp(t).lock, NextOp(t).mode)
  /\ at' = [at EXCEPT ![t] = @ + 1]
  /\ UNCHANGED <<views, hidden, focused, geo, resizing, res, comp, status,
                 overflow_checks, pc, targ, motions, last>>

LRelease(t) ==
  /\ Busy(t)
  /\ NextOp(t).do = "release"
  /\ IF at[t] = Len(LockPlan(pc[t]))
       THEN /\ pc' = [pc EXCEPT ![t] = "idle"]
            /\ at' = [at EXCEPT ![t] = 0]
       ELSE /\ at' = [at EXCEPT ![t] = @ + 1]
            /\ UNCHANGED pc
  /\ UNCHANGED <<views, hidden, focused, geo, resizing, res, comp, status,
                 overflow_checks, targ, motions, last>>

NextLock ==
  \/ \E t \in Threads : LStart(t)
  \/ \E t \in Threads : LAcquire(t)
  \/ \E t \in Threads : LRelease(t)

\* Every thread is scheduled: one that can take its next step for good takes
\* it.  The locks promise a waiting thread nothing more.
SpecLock ==
  /\ Init
  /\ [][NextLock]_vars
  /\ \A t \in Threads : WF_vars(LAcquire(t) \/ LRelease(t))

\* The resize arithmetic of on_pointer_motion alone: one window with a resize
\* session on it, at any origin of the grid (a move session puts a window's
\* origin at any pointer position; the press that starts the resize is the
\* callback that ran last), and pointer motions to any point of the grid.
Coords == {k * GridStep : k \in 0..MaxCoord}
GridPoints == [x : Coords, y : Coords]

InitResize ==
  /\ views = [o \in Outputs |-> IF o = 1 THEN <<1>> ELSE <<>>]
  /\ hidden = <<>>
  /\ focused = 1
  /\ res \in [Outputs -> Resolutions]
  /\ \E origin \in GridPoints :
       geo = [w \in Windows |->
                IF w = 1 THEN [x |-> origin.x, y |-> origin.y,
                               w |-> res[1].w, h |-> res[1].h]
                         ELSE NoGeo]
  /\ resizing = [w \in Windows |-> w = 1]
  /\ comp = [view |-> 1, edges |-> ResizeRightBottom]
  /\ status = "running"
  /\ overflow_checks \in BOOLEAN
  /\ pc = [t \in Threads |-> "idle"]
  /\ targ = [t \in Threads |-> Root]
  /\ at = [t \in Threads |-> 0]
  /\ motions = 0
  /\ last = [Call("press_right", 1) EXCEPT !.ret = TRUE]

OnGridMotion ==
  \E point \in GridPoints :
    /\ Running
    /\ Become(PointerMotion(St, point))
    /\ UNCHANGED <<at, overflow_checks, pc, targ, motions>>

SpecResize == InitResize /\ [][OnGridMotion]_vars


\* =================================================================== claims
NoDuplicates(sq) == \A i, j \in 1..Len(sq) : sq[i] = sq[j] => i = j
AcquireOps == {"request_move", "request_resize"}

\* C1: an acquire (for a move or for a resize) attempted while a session is
\* active returns false, leaves the stored session window and edge-set
\* unchanged, does not raise the requesting window, changes no resizing flag
\* and does not go on to the second half of a resize.
C1_FailedAcquire ==
  [][(last'.op \in AcquireOps /\ comp.view # None)
       => /\ last'.ret = FALSE
          /\ comp' = comp
          /\ views' = views
          /\ resizing' = resizing
          /\ pc' = pc]_vars

\* C1 witness: a request for one window was refused while another window
\* holds the session.
C1_Witness ==
  /\ last.op \in AcquireOps
  /\ last.ret = FALSE
  /\ comp.view # None
  /\ comp.view # last.view

\* C2: whenever a session is active, its window's resizing flag is set exactly
\* when the edge-set is non-empty; and a move acquire that has just succeeded
\* leaves an empty edge-set and the flag unset.
C2_SessionFlag ==
  /\ comp.view # None => (resizing[comp.view] <=> comp.edges # ResizeEdgeEmpty)
  /\ (last.op = "request_move" /\ last.ret)
       => (comp.view = last.view /\ comp.edges = ResizeEdgeEmpty /\ ~resizing[last.view])

\* C3: when the window-destroyed callback has returned for a window, the
\* session does not reference that window.
C3_DestroyClearsSession ==
  (last.op = "view_destroyed" /\ status = "running") => comp.view # last.view

\* C4: when the window-destroyed callback has returned for a window, the
\* visibility stack holds no occurrence of it.
C4_DestroyCleansHidden ==
  (last.op = "view_destroyed" /\ status = "running") => ~InSeq(last.view, hidden)

\* C5: every window handle occurs at most once in the visibility stack.
C5_NoDuplicates == status = "running" => NoDuplicates(hidden)

\* C6: a layout recompute on an output with exactly one non-hidden window V
\* gives V the origin (0,0) and the size of the output's resolution.
C6_LayoutOne ==
  (last.lay.ran /\ Len(last.lay.vis) = 1)
    => LET V == last.lay.vis[1] IN
       /\ V \in DOMAIN last.lay.rects
       /\ last.lay.rects[V] = [x |-> 0, y |-> 0, w |-> res[last.lay.out].w,
                               h |-> res[last.lay.out].h]

\* C7: a layout recompute on an output with N >= 2 non-hidden windows
\* v_0..v_(N-1) gives v_i the size (w, h0) and origin (0, h0*(i div 2)) for even
\* i and the size (w, h1) and origin (w, h1*(i div 2)) for odd i, where
\* w = width/2, h0 = height/ceil(N/2) and h1 = height/floor(N/2).
C7_LayoutMany ==
  (last.lay.ran /\ Len(last.lay.vis) >= 2)
    => LET N == Len(last.lay.vis)
           w == res[last.lay.out].w \div 2
           h0 == res[last.lay.out].h \div ((N + 1) \div 2)
           h1 == res[last.lay.out].h \div (N \div 2)
       IN \A i \in 0..(N - 1) :
            LET v == last.lay.vis[i + 1] IN
            /\ v \in DOMAIN last.lay.rects
            /\ last.lay.rects[v] =
                 IF i % 2 = 0
                   THEN [x |-> 0, y |-> h0 * (i \div 2), w |-> w, h |-> h0]
                   ELSE [x |-> w, y |-> h1 * (i \div 2), w |-> w, h |-> h1]

\* C8: a layout recompute on an output with no non-hidden window assigns no
\* rectangle and completes without a fault.
C8_LayoutNone ==
  (last.lay.ran /\ Len(last.lay.vis) = 0)
    => (last.lay.status = "running" /\ DOMAIN last.lay.rects = {})

\* C9: a layout recompute assigns a rectangle to a window of the output if and
\* only if the window is not in the visibility stack.
C9_HiddenExcluded ==
  (last.lay.ran /\ last.lay.status = "running")
    => \A v \in Range(last.lay.vis) \cup last.lay.hid :
         (v \in DOMAIN last.lay.rects) <=> (v \notin last.lay.hid)

\* C10: a restore that directly follows the hiding of window W returns W and
\* leaves W out of the visibility stack; a restore returns the window hidden
\* last; a restore on an empty stack returns nothing and changes no stacking
\* order, focus or geometry.
C10_HideRestore ==
  [][/\ (last.op = "key_Down" /\ last.view # Root /\ last'.op = "key_Up")
          => (last'.popped = last.view /\ ~InSeq(last.view, hidden'))
     /\ (last'.op = "key_Up" /\ hidden # <<>> /\ focused # Root)
          => (last'.popped = hidden[Len(hidden)]
              /\ hidden' = SubSeq(hidden, 1, Len(hidden) - 1))
     /\ (last'.op = "key_Up" /\ hidden = <<>>)
          => (last'.popped = None /\ views' = views /\ focused' = focused
              /\ geo' = geo /\ hidden' = hidden)]_vars

\* C11: releasing is idempotent.  A button release leaves the session absent
\* and the edge-set empty; a release that finds no session (in particular one
\* that follows another release) changes neither the session, nor a window's
\* resizing flag, nor anything else of the windows.
Absent == [view |-> None, edges |-> ResizeEdgeEmpty]
C11_ReleaseIdempotent ==
  [][last'.op = "button_release"
       => /\ comp' = Absent
          /\ (comp.view = None \/ last.op = "button_release")
               => /\ comp' = comp
                  /\ resizing' = resizing
                  /\ views' = views
                  /\ geo' = geo
                  /\ focused' = focused
                  /\ hidden' = hidden
                  /\ status' = status]_vars
\* a release has found no session, with a window that could have had one
C11_Witness ==
  /\ last.op = "button_release"
  /\ last.view = None
  /\ Alive # {}

\* C12: a cycle-left or cycle-right key on a window whose output shows fewer
\* than 2 visible windows is consumed and changes neither the stacking order,
\* nor the focused window, nor any geometry.
CycleOps == {"key_Left", "key_Right"}
VisibleWith(w) == Visible(views[OutOf(St, w)], hidden)
C12_CycleNoOp ==
  [][(/\ last'.op \in CycleOps
      /\ focused # Root
      /\ Len(VisibleWith(focused)) < 2)
       => /\ last'.ret = TRUE
          /\ views' = views
          /\ focused' = focused
          /\ geo' = geo]_vars

\* C13: a pointer motion during a resize session sets the window's width to
\* max(32, pointer.x - origin.x) and its height to max(32, pointer.y -
\* origin.y) and leaves the origin where it was; so a pointer above or left
\* of the origin gives the floor: origin (100,100), pointer (80,80) -> 32x32.
C13_ResizeFloor ==
  [][(/\ last'.op = "pointer_motion"
      /\ comp.view # None
      /\ comp.edges # ResizeEdgeEmpty
      /\ status' = "running")
       => LET g == geo[comp.view]
              n == geo'[comp.view]
              p == last'.pt
          IN /\ n.w = Max(MinSize, p.x - g.x)
             /\ n.h = Max(MinSize, p.y - g.y)
             /\ n.x = g.x
             /\ n.y = g.y
             /\ \A w \in Windows \ {comp.view} : geo'[w] = geo[w]]_vars
\* the example of the claim: the pointer has gone above and left of the origin
C13_Witness ==
  /\ last.op = "pointer_motion"
  /\ last.pt = [x |-> 80, y |-> 80]
  /\ comp = [view |-> 1, edges |-> ResizeRightBottom]
  /\ geo[1] = [x |-> 100, y |-> 100, w |-> 32, h |-> 32]

\* C14: no callback blocks for ever.  No callback asks for the session lock
\* or the visibility-stack lock while it holds either of them, no reachable
\* state is a deadlock, and with every thread scheduled fairly every callback
\* that has been invoked returns.
C14_OneLockAtATime == \A t \in Threads : Requesting(t) => Held(t) = {}
C14_NoDeadlock == (\E t \in Threads : Busy(t)) => \E t \in Threads : CanStep(t)
C14_NoBlocking ==
  /\ [](C14_OneLockAtATime /\ C14_NoDeadlock)
  /\ \A t \in Threads : Busy(t) ~> ~Busy(t)
\* C14 as the code has it: one lock at a time, no deadlock, and every
\* critical section ends; what remains open is how long a callback waits for
\* a lock that other callbacks keep taking.
C14_LockDiscipline ==
  /\ [](C14_OneLockAtATime /\ C14_NoDeadlock)
  /\ \A t \in Threads : (Held(t) # {}) ~> (Held(t) = {})
\* a callback waits for a lock that a callback on another thread holds
C14_Witness ==
  \E t, u \in Threads :
    /\ t # u
    /\ Requesting(t)
    /\ ~CanStep(t)
    /\ \E h \in Held(u) : h.lock = NextOp(t).lock

\* C15: when a window W is destroyed the focus goes to the top-most window of
\* W's output that is not W and not hidden: the focus target is never W and
\* never a hidden window.  When no such window remains no focus call is made
\* (the focus stays where it is, or is nobody's when W had it).
C15_DestroyFocus ==
  [][last'.op = "view_destroyed"
       => LET W == last'.view
              vs == views[OutOf(St, W)]
              cand == {i \in 1..Len(vs) : vs[i] # W /\ vs[i] \notin Range(hidden)}
          IN IF cand # {}
               THEN LET top == CHOOSE i \in cand : \A j \in cand : j <= i IN
                    /\ focused' = vs[top]
                    /\ focused' # W
                    /\ focused' \notin Range(hidden)
               ELSE focused' = IF focused = W THEN Root ELSE focused]_vars
\* a destruction has given the focus to a visible window that lies below a
\* hidden one
C15_Witness ==
  /\ last.op = "view_destroyed"
  /\ focused # Root
  /\ \E o \in Outputs : \E i, j \in 1..Len(views[o]) :
       /\ views[o][i] = focused
       /\ i < j
       /\ InSeq(views[o][j], hidden)
       /\ ~InSeq(focused, hidden)

\* C16: after the hide action on the focused window W, W is in the visibility
\* stack and at the back of its output's stacking order, the layout of that
\* output has been recomputed, and the focus has gone to the top-most visible
\* window of that output if there is one.
C16_HideRefocus ==
  (last.op = "key_Down" /\ last.view # Root /\ status = "running")
    => LET W == last.view
           o == OutOf(St, W)
           vis == Visible(views[o], hidden)
       IN /\ InSeq(W, hidden)
          /\ views[o][1] = W
          /\ last.lay.ran /\ last.lay.out = o
          /\ vis # <<>> => focused = vis[Len(vis)]

\* C17: a session ends only on a button release.  Once a session on a window
\* is active it stays active on that window with the same edge-set across
\* every keyboard, pointer-motion, pointer-press, move-request, resize-request,
\* window-created and output-resolution event; a button release ends it,
\* whichever the button, the modifiers and the window under the pointer.
KeepOps ==
  {"key_ignored", "key_d", "key_Left", "key_Right", "key_Down", "key_Up", "key_o",
   "key_q", "key_other", "pointer_motion", "press_left", "press_right",
   "press_other", "press_ignored", "request_move", "request_resize",
   "view_created", "output_resolution"}
C17_EndsOnRelease ==
  [][comp.view # None
       => /\ last'.op \in KeepOps => comp' = comp
          /\ last'.op = "button_release" => comp'.view = None]_vars
\* a resize session has lived through a key event that hid a window
C17_Witness ==
  /\ last.op = "key_Down"
  /\ last.view # Root
  /\ comp.view # None
  /\ comp.edges = ResizeRightBottom

\* C18: the pointer-button callback returns true exactly when a session is
\* active once the event has been handled, for every button, modifier and
\* target window, the root included; with callbacks one at a time a release
\* always returns false.
ButtonOps == {"press_left", "press_right", "press_other", "press_ignored",
              "button_release"}
C18_ButtonConsumed ==
  last.op \in ButtonOps
    => /\ last.ret <=> comp.view # None
       /\ last.op = "button_release" => ~last.ret
\* a press that started no session (on the root or without the modifier) has
\* returned true because a session was active
C18_Witness ==
  /\ last.op = "press_ignored"
  /\ last.ret
  /\ comp.view # None

\* C19: outputs are independent.  A layout recomputation for an output gives
\* rectangles to windows of that output only, and the rectangles depend only
\* on that output's resolution and its ordered non-hidden windows: they are
\* those of the state in which no window of another output is hidden.
OwnHidden(o) == SelectSeq(hidden, LAMBDA v : InSeq(v, views[o]))
C19_OutputsIndependent ==
  last.lay.ran
    => LET o == last.lay.out
           own == LayoutCall(o, views[o], OwnHidden(o), res[o], overflow_checks)
       IN /\ DOMAIN last.lay.rects \subseteq Range(views[o])
          /\ last.lay.rects = own.rects
          /\ last.lay.status = own.status

\* C20: an absent session is clean.  In every state in which no callback is
\* in the middle of an acquire or a release, under any interleaving of resize
\* acquires with releases, an absent session goes with an empty edge-set and
\* with no window carrying the resizing flag.
C20_AbsentIsClean ==
  ((\A t \in Threads : pc[t] = "idle") /\ comp.view = None)
    => /\ comp.edges = ResizeEdgeEmpty
       /\ \A w \in Windows : ~resizing[w]

====
